---- MODULE Spec2Model ----
(***************************************************************************)
(* waybar-openweathermap: one run of the root command (cmd/root.go).       *)
(*                                                                         *)
(* Strings are TLA+ strings.  The pictograms of the icon table and the     *)
(* degree sign are not ASCII and are written as bracketed ASCII names      *)
(* ("[sun]", "[deg]").  A float64 of the provider response is the integer  *)
(* number of eighths it holds (n stands for n/8, which a float64 holds     *)
(* exactly), so that truncation and the rounding of FormatFloat are        *)
(* computed exactly.  A parsed command-line number is the exact decimal    *)
(* [neg, mant, exp], mant * 10^-exp.                                       *)
(***************************************************************************)
EXTENDS Integers, Sequences, FiniteSets, TLC

VARIABLES
    pc,         \* position of the run: the stage about to be executed
    args,       \* the positional arguments given on the command line
    groups,     \* the provider library's condition groups, in description's order
    zone,       \* the local time zone of the process: [name, offset]
    long,       \* root.go:77
    lat,        \* root.go:82
    request,    \* root.go:87, the CurrentWeatherData filled in by the query
    calls,      \* the coordinate pairs of the network calls issued so far
    temp,       \* root.go:110
    icon,       \* root.go:111
    desc,       \* root.go:112
    feelsLike,  \* root.go:114
    humidity,   \* root.go:115
    pressure,   \* root.go:116
    sunrise,    \* root.go:117
    sunset,     \* root.go:118
    windSpeed,  \* root.go:119
    data,       \* root.go:121
    b,          \* root.go:135
    stdout,     \* the byte strings written to standard output, in order
    stderr,     \* the diagnostics written to the error stream, in order
    exitCode,   \* the exit status of the process, -1 while it runs
    stages      \* history: the stages entered so far, in order

vars == <<pc, args, groups, zone, long, lat, request, calls, temp, icon, desc,
          feelsLike, humidity, pressure, sunrise, sunset, windSpeed, data, b,
          stdout, stderr, exitCode, stages>>

None == "<none>"

(***************************************************************************)
(* Bounds of the model.                                                    *)
(***************************************************************************)
\* the longest list of condition entries a response carries
MaxWeather == 2
\* the largest number of positional arguments tried
MaxArgs == 4

(***************************************************************************)
(* Characters and strings.                                                 *)
(***************************************************************************)
Char(s, i) == SubSeq(s, i, i)

Digits == "0123456789"
LowerLetters == "abcdefghijklmnopqrstuvwxyz"
UpperLetters == "ABCDEFGHIJKLMNOPQRSTUVWXYZ"

IndexIn(alphabet, c) ==
    IF \E i \in 1..Len(alphabet) : Char(alphabet, i) = c
    THEN CHOOSE i \in 1..Len(alphabet) : Char(alphabet, i) = c
    ELSE 0

IsDigit(c) == IndexIn(Digits, c) > 0
IsLower(c) == IndexIn(LowerLetters, c) > 0
IsUpper(c) == IndexIn(UpperLetters, c) > 0
IsLetter(c) == IsLower(c) \/ IsUpper(c)
\* unicode.IsSpace on the characters that occur
IsSpace(c) == c \in {" ", "\n", "\t", "\r"}

ToUpper(c) == IF IsLower(c) THEN Char(UpperLetters, IndexIn(LowerLetters, c)) ELSE c
ToLower(c) == IF IsUpper(c) THEN Char(LowerLetters, IndexIn(UpperLetters, c)) ELSE c

AllDigits(s) == \A i \in 1..Len(s) : IsDigit(Char(s, i))

\* the number that the digits of s write; val[n] is that of the first n
DigitsVal(s) ==
    LET val[n \in 0..Len(s)] ==
            IF n = 0 THEN 0 ELSE val[n - 1] * 10 + (IndexIn(Digits, Char(s, n)) - 1)
    IN  val[Len(s)]

\* the decimal digits of the natural number n
NatStr(n) ==
    LET str[m \in 0..n] ==
            IF m < 10 THEN Char(Digits, m + 1)
            ELSE str[m \div 10] \o Char(Digits, (m % 10) + 1)
    IN  str[n]

Abs(n) == IF n < 0 THEN -n ELSE n

\* strings.TrimLeftFunc(s, unicode.IsSpace): s from its first character that
\* is no white space; from[i] is the result when the scan has reached index i
TrimLeftSpace(s) ==
    LET from[i \in 1..(Len(s) + 1)] ==
            IF i <= Len(s) /\ IsSpace(Char(s, i)) THEN from[i + 1]
            ELSE SubSeq(s, i, Len(s))
    IN  from[1]

(***************************************************************************)
(* Conversions of the standard library, as the run uses them.              *)
(***************************************************************************)
FirstIndex(s, c) ==
    IF \E i \in 1..Len(s) : Char(s, i) = c
    THEN CHOOSE i \in 1..Len(s) :
            Char(s, i) = c /\ \A j \in 1..(i - 1) : Char(s, j) # c
    ELSE 0

\* s without the zeros at its end
StripTrailingZeros(s) ==
    LET upTo[n \in 0..Len(s)] ==
            IF n > 0 /\ Char(s, n) = "0" THEN upTo[n - 1] ELSE SubSeq(s, 1, n)
    IN  upTo[Len(s)]

\* strconv.ParseFloat(s, 64) on plain decimal text: an optional sign, digits,
\* an optional point and digits, at least one digit.  The value is the exact
\* decimal mant * 10^-exp; everything else is a syntax error with value 0.
ParseFloat(s) ==
    LET signed == s # "" /\ Char(s, 1) \in {"+", "-"}
        u == IF signed THEN SubSeq(s, 2, Len(s)) ELSE s
        d == FirstIndex(u, ".")
        ip == IF d = 0 THEN u ELSE SubSeq(u, 1, d - 1)
        fp == IF d = 0 THEN "" ELSE StripTrailingZeros(SubSeq(u, d + 1, Len(u)))
        ok == AllDigits(ip) /\ AllDigits(fp)
              /\ (ip # "" \/ (d # 0 /\ SubSeq(u, d + 1, Len(u)) # ""))
    IN  IF ok
        THEN [err |-> None,
              val |-> [neg |-> signed /\ Char(s, 1) = "-",
                       mant |-> DigitsVal(ip \o fp), exp |-> Len(fp)]]
        ELSE [err |-> "invalid syntax", val |-> [neg |-> FALSE, mant |-> 0, exp |-> 0]]

\* a variant of Int64: the nearest integer instead of the integer part
Int64Rounded(n) ==
    IF n >= 0 THEN (n + 4) \div 8 ELSE -((-n + 4) \div 8)

\* int64(f) of a float64 holding n eighths: the fraction is discarded
Int64(n) == IF n >= 0 THEN n \div 8 ELSE -((-n) \div 8)

\* strconv.FormatInt(i, 10)
FormatInt(i) == (IF i < 0 THEN "-" ELSE "") \o NatStr(Abs(i))

Pow10(prec) == IF prec = 0 THEN 1 ELSE 10

\* strconv.FormatFloat(f, 'f', prec, 64) of a float64 holding n eighths, for
\* prec 0 and 1: the exact value rounded to nearest, ties to even; the sign of
\* a negative value is kept even when it rounds to zero.
FormatFloat(n, prec) ==
    LET scaled == Abs(n) * Pow10(prec)
        q == scaled \div 8
        r == scaled % 8
        rounded == IF r > 4 \/ (r = 4 /\ q % 2 = 1) THEN q + 1 ELSE q
    IN  (IF n < 0 THEN "-" ELSE "")
        \o NatStr(rounded \div Pow10(prec))
        \o (IF prec = 0 THEN "" ELSE "." \o NatStr(rounded % Pow10(prec)))

Pad2(n) == IF n < 10 THEN "0" \o NatStr(n) ELSE NatStr(n)

\* time.Unix(sec, 0).Format(timefmt) with timefmt = "15:04 MST", in the
\* process's local zone z
FormatTime(sec, z) ==
    LET l == sec + z.offset
    IN  Pad2((l \div 3600) % 24) \o ":" \o Pad2((l \div 60) % 60) \o " " \o z.name

\* cases.Title(language.German).String(s): the first letter of every word in
\* upper case, its other letters in lower case (a word is a run of letters)
TitleChar(s, i) ==
    LET c == Char(s, i)
        inWord == i > 1 /\ IsLetter(Char(s, i - 1))
    IN  IF ~IsLetter(c) THEN c ELSE IF inWord THEN ToLower(c) ELSE ToUpper(c)

\* cased[lo, hi] is the part of the result for the characters lo..hi of s
Title(s) ==
    LET cased[lo \in 1..(Len(s) + 1), hi \in 0..Len(s)] ==
            IF lo > hi THEN ""
            ELSE IF lo = hi THEN TitleChar(s, lo)
            ELSE cased[lo, (lo + hi) \div 2] \o cased[((lo + hi) \div 2) + 1, hi]
    IN  cased[1, Len(s)]

\* the string escaping of encoding/json on the characters that occur
JsonEscapeChar(c) ==
    CASE c = "\n" -> "\\n"
      [] c = "\"" -> "\\\""
      [] c = "\\" -> "\\\\"
      [] OTHER -> c

\* escaped[lo, hi] is the part of the result for the characters lo..hi of s
JsonEscape(s) ==
    LET escaped[lo \in 1..(Len(s) + 1), hi \in 0..Len(s)] ==
            IF lo > hi THEN ""
            ELSE IF lo = hi THEN JsonEscapeChar(Char(s, lo))
            ELSE escaped[lo, (lo + hi) \div 2] \o escaped[((lo + hi) \div 2) + 1, hi]
    IN  escaped[1, Len(s)]

\* json.Marshal(data) of a result (root.go:225-229); it cannot fail on a
\* struct of three strings
Marshal(r) ==
    [err |-> None,
     bytes |-> "{\"text\":\"" \o JsonEscape(r.Text)
               \o "\",\"tooltip\":\"" \o JsonEscape(r.Tooltip)
               \o "\",\"class\":\"" \o JsonEscape(r.Class) \o "\"}"]

(***************************************************************************)
(* cmd/root.go: tables and pure functions.                                 *)
(***************************************************************************)
icons ==
    [c \in {"01d", "02d", "03d", "04d", "09d", "10d", "11d", "13d", "50d",
            "01n", "02n", "03n", "04n", "09n", "10n", "11n", "13n", "50n"} |->
        CASE SubSeq(c, 1, 2) = "01" -> "[sun]"
          [] SubSeq(c, 1, 2) = "02" -> "[sun behind cloud]"
          [] SubSeq(c, 1, 2) = "03" -> "[cloud]"
          [] SubSeq(c, 1, 2) = "04" -> "[cloud]"
          [] SubSeq(c, 1, 2) = "09" -> "[cloud with rain]"
          [] SubSeq(c, 1, 2) = "10" -> "[sun behind rain cloud]"
          [] SubSeq(c, 1, 2) = "11" -> "[cloud with lightning and rain]"
          [] SubSeq(c, 1, 2) = "13" -> "[cloud with snow]"
          [] OTHER -> "[fog]"]

\* a variant of IconLookup: a placeholder for a code the table does not hold
IconLookupPlaceholder(code) == IF code \in DOMAIN icons THEN icons[code] ELSE "?"

\* icons[code]: a Go map yields the zero value, "", for a key it does not hold
IconLookup(code) == IF code \in DOMAIN icons THEN icons[code] ELSE ""

\* strings.Join of the parts with the empty separator is their concatenation
text(i, t) == i \o " " \o t \o " [deg]C"

\* a variant of tooltip: the pressure and humidity lines change places
tooltipReordered(d, fl, pr, hu, sr, ss, ws) ==
    TrimLeftSpace(
        Title(d) \o "\n"
        \o "Feels like " \o fl \o " [deg]C\n"
        \o "Humidity " \o hu \o "%\n"
        \o "Pressure " \o pr \o " hPa\n"
        \o "Sunrise " \o sr \o "\n"
        \o "Sunset " \o ss \o "\n"
        \o "Wind speed " \o ws \o " m/sec")

\* a variant of tooltip: the joined text is not trimmed
tooltipUntrimmed(d, fl, pr, hu, sr, ss, ws) ==
    Title(d) \o "\n"
        \o "Feels like " \o fl \o " [deg]C\n"
        \o "Pressure " \o pr \o " hPa\n"
        \o "Humidity " \o hu \o "%\n"
        \o "Sunrise " \o sr \o "\n"
        \o "Sunset " \o ss \o "\n"
        \o "Wind speed " \o ws \o " m/sec"

tooltip(d, fl, pr, hu, sr, ss, ws) ==
    TrimLeftSpace(
        Title(d) \o "\n"
        \o "Feels like " \o fl \o " [deg]C\n"
        \o "Pressure " \o pr \o " hPa\n"
        \o "Humidity " \o hu \o "%\n"
        \o "Sunrise " \o sr \o "\n"
        \o "Sunset " \o ss \o "\n"
        \o "Wind speed " \o ws \o " m/sec")

\* the inner loop of description: the first entry of grp, from index c on,
\* whose ID is id
RECURSIVE ScanGroup(_, _, _)
ScanGroup(grp, c, id) ==
    IF c > Len(grp) THEN [found |-> FALSE, Meaning |-> ""]
    ELSE IF grp[c].ID = id THEN [found |-> TRUE, Meaning |-> grp[c].Meaning]
    ELSE ScanGroup(grp, c + 1, id)

\* the outer loop of description, from group g on
RECURSIVE ScanGroups(_, _, _)
ScanGroups(gs, g, id) ==
    IF g > Len(gs) THEN ""
    ELSE LET r == ScanGroup(gs[g], 1, id)
         IN  IF r.found THEN r.Meaning ELSE ScanGroups(gs, g + 1, id)

\* a variant of description: the loops do not return at the first match, the
\* last matching entry wins
RECURSIVE LastMeaning(_, _, _)
LastMeaning(entries, c, id) ==
    IF c = 0 THEN ""
    ELSE IF entries[c].ID = id THEN entries[c].Meaning
    ELSE LastMeaning(entries, c - 1, id)

descriptionLastMatch(id) ==
    LET all == groups[1] \o groups[2] \o groups[3] \o groups[4]
               \o groups[5] \o groups[6] \o groups[7]
    IN  LastMeaning(all, Len(all), id)

description(id) == ScanGroups(groups, 1, id)

(***************************************************************************)
(* The inputs of a run: the command line, the process's time zone, the     *)
(* provider library's condition tables and the provider's answers.         *)
(***************************************************************************)
\* texts given as coordinates: two numbers, a word and the empty text
CoordPool == {"4.9", "-52.25", "x", ""}

KeyPool == {"k3y"}

\* up to MaxArgs arguments: coordinates in the first two places, keys after them
ArgLists ==
    UNION {{a \in [1..n -> CoordPool \cup KeyPool] :
               \A i \in 1..n : a[i] \in IF i <= 2 THEN CoordPool ELSE KeyPool} :
           n \in 0..MaxArgs}

Zones == {[name |-> "UTC", offset |-> 0], [name |-> "CET", offset |-> 3600]}

Entry(id, meaning) == [ID |-> id, Meaning |-> meaning]

\* an excerpt of the library's tables
CatalogPlain ==
    << <<Entry(200, "thunderstorm with light rain")>>,
       <<Entry(300, "light intensity drizzle")>>,
       <<Entry(500, "light rain"), Entry(501, "moderate rain")>>,
       <<Entry(600, "light snow")>>,
       <<Entry(701, "mist")>>,
       <<Entry(800, "clear sky"), Entry(801, "few clouds")>>,
       <<Entry(951, "calm")>> >>

\* IDs that occur twice, within one group and in two groups
CatalogDuplicates ==
    << <<>>,
       <<>>,
       <<Entry(501, "moderate rain"), Entry(500, "light rain"), Entry(500, "rain")>>,
       <<>>,
       <<Entry(800, "haze")>>,
       <<Entry(800, "clear sky")>>,
       <<Entry(500, "shower"), Entry(800, "sky is clear")>> >>

\* meanings that are empty or start with white space
CatalogBlank ==
    << <<>>, <<>>, <<Entry(500, "")>>, <<>>, <<>>, <<Entry(800, " clear SKY")>>, <<>> >>

Catalogs == {CatalogPlain, CatalogDuplicates, CatalogBlank}

\* condition entries: 999 is an ID of no group, "zz" an icon code of no table
WeatherPool ==
    {[ID |-> 800, Icon |-> "01d"], [ID |-> 500, Icon |-> "zz"],
     [ID |-> 999, Icon |-> "10n"]}

WeatherLists == UNION {[1..n -> WeatherPool] : n \in 0..MaxWeather}

\* Temp, FeelsLike and Pressure in eighths; Humidity is an int of the library
MainPool ==
    {[Temp |-> 171, FeelsLike |-> 166, Pressure |-> 8104, Humidity |-> 55],
     [Temp |-> -5, FeelsLike |-> -23, Pressure |-> 8108, Humidity |-> 100],
     [Temp |-> 2, FeelsLike |-> 5, Pressure |-> 7999, Humidity |-> 0]}

\* Speed in eighths
WindPool == {[Speed |-> 28], [Speed |-> 21]}

SysPool == {[Sunrise |-> 1700026200, Sunset |-> 1700059500]}

Responses ==
    [Main : MainPool, Wind : WindPool, Sys : SysPool, Weather : WeatherLists]

\* the zero value of openweathermap.CurrentWeatherData
ZeroRequest ==
    [Main |-> [Temp |-> 0, FeelsLike |-> 0, Pressure |-> 0, Humidity |-> 0],
     Wind |-> [Speed |-> 0], Sys |-> [Sunrise |-> 0, Sunset |-> 0], Weather |-> <<>>]

ZeroFloat == [neg |-> FALSE, mant |-> 0, exp |-> 0]

ZeroResult == [Text |-> "", Tooltip |-> "", Class |-> ""]

(***************************************************************************)
(* The run.                                                                *)
(***************************************************************************)
Init ==
    /\ pc = "Execute"
    /\ args \in ArgLists
    /\ groups \in Catalogs
    /\ zone \in Zones
    /\ long = ZeroFloat
    /\ lat = ZeroFloat
    /\ request = ZeroRequest
    /\ calls = <<>>
    /\ temp = 0
    /\ icon = ""
    /\ desc = ""
    /\ feelsLike = 0
    /\ humidity = 0
    /\ pressure = 0
    /\ sunrise = ""
    /\ sunset = ""
    /\ windSpeed = 0
    /\ data = ZeroResult
    /\ b = ""
    /\ stdout = <<>>
    /\ stderr = <<>>
    /\ exitCode = -1
    /\ stages = <<>>

\* the process ends with status code after writing msg to the error stream
Exit(msg, code) ==
    /\ stderr' = Append(stderr, msg)
    /\ exitCode' = code
    /\ pc' = "exited"

\* a variant of Fatalf: the message is logged and Run returns, so that the
\* process ends with status 0
PrintfAndReturn(msg) == Exit(msg, 0)

\* log.Fatalf: the message on the error stream, then os.Exit(1)
Fatalf(msg) == Exit(msg, 1)

Enter(stage) ==
    /\ pc' = stage
    /\ stages' = Append(stages, stage)

\* Execute and cobra.ExactArgs(3): Run is called with exactly three arguments
Execute ==
    /\ pc = "Execute"
    /\ IF Len(args) # 3
       THEN /\ Exit("Error: accepts 3 arg(s), received " \o NatStr(Len(args)), 1)
            /\ UNCHANGED stages
       ELSE /\ Enter("ParseArgs")
            /\ UNCHANGED <<stderr, exitCode>>
    /\ UNCHANGED <<args, groups, zone, long, lat, request, calls, temp, icon, desc,
                   feelsLike, humidity, pressure, sunrise, sunset, windSpeed, data,
                   b, stdout>>

ParseError(s) == "strconv.ParseFloat: parsing \"" \o s \o "\": invalid syntax"

\* a variant of ParseArgs: the error of the second ParseFloat is dropped
ParseArgsLatUnchecked ==
    /\ pc = "ParseArgs"
    /\ LET pl == ParseFloat(args[1])
           pa == ParseFloat(args[2])
       IN  IF pl.err # None
           THEN /\ Fatalf("parse longitude " \o args[1] \o ": " \o ParseError(args[1]))
                /\ UNCHANGED <<long, lat, stages>>
           ELSE /\ long' = pl.val
                /\ lat' = pa.val
                /\ Enter("NewCurrent")
                /\ UNCHANGED <<stderr, exitCode>>
    /\ UNCHANGED <<args, groups, zone, request, calls, temp, icon, desc, feelsLike,
                   humidity, pressure, sunrise, sunset, windSpeed, data, b, stdout>>

\* root.go:77-85: both coordinates are parsed, the first failure is fatal

ParseArgs ==
    /\ pc = "ParseArgs"
    /\ LET pl == ParseFloat(args[1])
           pa == ParseFloat(args[2])
       IN  IF pl.err # None
           THEN /\ Fatalf("parse longitude " \o args[1] \o ": " \o ParseError(args[1]))
                /\ UNCHANGED <<long, lat, stages>>
           ELSE IF pa.err # None
           THEN /\ long' = pl.val
                /\ Fatalf("parse latitude " \o args[2] \o ": " \o ParseError(args[2]))
                /\ UNCHANGED <<lat, stages>>
           ELSE /\ long' = pl.val
                /\ lat' = pa.val
                /\ Enter("NewCurrent")
                /\ UNCHANGED <<stderr, exitCode>>
    /\ UNCHANGED <<args, groups, zone, request, calls, temp, icon, desc, feelsLike,
                   humidity, pressure, sunrise, sunset, windSpeed, data, b, stdout>>

\* openweathermap.NewCurrent("C", "en", args[2]): the library accepts or
\* rejects the key
NewCurrent ==
    /\ pc = "NewCurrent"
    /\ \E err \in {None, "invalid API key"} :
          IF err # None
          THEN /\ Fatalf("get weatherinfo: " \o err)
               /\ UNCHANGED stages
          ELSE /\ Enter("Query")
               /\ UNCHANGED <<stderr, exitCode>>
    /\ UNCHANGED <<args, groups, zone, long, lat, request, calls, temp, icon, desc,
                   feelsLike, humidity, pressure, sunrise, sunset, windSpeed, data,
                   b, stdout>>

\* a variant of Query: the two fields of the coordinate pair are crossed
QuerySwapped ==
    /\ pc = "Query"
    /\ calls' = Append(calls, [Longitude |-> lat, Latitude |-> long])
    /\ \/ /\ Fatalf("get weather: request failed")
          /\ UNCHANGED <<request, stages>>
       \/ /\ request' \in Responses
          /\ Enter("ExtractFields")
          /\ UNCHANGED <<stderr, exitCode>>
    /\ UNCHANGED <<args, groups, zone, long, lat, temp, icon, desc, feelsLike,
                   humidity, pressure, sunrise, sunset, windSpeed, data, b, stdout>>

\* a variant of Query: a failed call is tried once more before it is fatal
QueryRetried ==
    /\ pc = "Query"
    /\ calls' = Append(calls, [Longitude |-> long, Latitude |-> lat])
    /\ \/ /\ calls = <<>>
          /\ UNCHANGED <<pc, stderr, exitCode, request, stages>>
       \/ /\ calls # <<>>
          /\ Fatalf("get weather: request failed")
          /\ UNCHANGED <<request, stages>>
       \/ /\ request' \in Responses
          /\ Enter("ExtractFields")
          /\ UNCHANGED <<stderr, exitCode>>
    /\ UNCHANGED <<args, groups, zone, long, lat, temp, icon, desc, feelsLike,
                   humidity, pressure, sunrise, sunset, windSpeed, data, b, stdout>>

\* request.CurrentByCoordinates(&Coordinates{Longitude: long, Latitude: lat}):
\* one network call, which fails or fills request with the provider's answer
Query ==
    /\ pc = "Query"
    /\ calls' = Append(calls, [Longitude |-> long, Latitude |-> lat])
    /\ \/ /\ Fatalf("get weather: request failed")
          /\ UNCHANGED <<request, stages>>
       \/ /\ request' \in Responses
          /\ Enter("ExtractFields")
          /\ UNCHANGED <<stderr, exitCode>>
    /\ UNCHANGED <<args, groups, zone, long, lat, temp, icon, desc, feelsLike,
                   humidity, pressure, sunrise, sunset, windSpeed, data, b, stdout>>

\* root.go:110-119.  request.Weather[0] of an empty list is a run-time panic:
\* the Go runtime writes it to the error stream and the process ends with
\* status 2.
ExtractFields ==
    /\ pc = "ExtractFields"
    /\ temp' = request.Main.Temp
    /\ IF request.Weather = <<>>
       THEN /\ Exit("panic: runtime error: index out of range [0] with length 0", 2)
            /\ UNCHANGED <<icon, desc, feelsLike, humidity, pressure, sunrise,
                           sunset, windSpeed, stages>>
       ELSE /\ icon' = IconLookup(request.Weather[1].Icon)
            /\ desc' = description(request.Weather[1].ID)
            /\ feelsLike' = request.Main.FeelsLike
            /\ humidity' = request.Main.Humidity
            /\ pressure' = request.Main.Pressure
            /\ sunrise' = FormatTime(request.Sys.Sunrise, zone)
            /\ sunset' = FormatTime(request.Sys.Sunset, zone)
            /\ windSpeed' = request.Wind.Speed
            /\ Enter("Format")
            /\ UNCHANGED <<stderr, exitCode>>
    /\ UNCHANGED <<args, groups, zone, long, lat, request, calls, data, b, stdout>>

\* root.go:121-133.  humidity is an int, int64(humidity) is its value.
Format ==
    /\ pc = "Format"
    /\ data' = [Text |-> text(icon, FormatFloat(temp, 1)),
                Tooltip |-> tooltip(desc,
                                    FormatInt(Int64(feelsLike)),
                                    FormatInt(Int64(pressure)),
                                    FormatInt(humidity),
                                    sunrise,
                                    sunset,
                                    FormatFloat(windSpeed, 0)),
                Class |-> "weather"]
    /\ Enter("Serialize")
    /\ UNCHANGED <<args, groups, zone, long, lat, request, calls, temp, icon, desc,
                   feelsLike, humidity, pressure, sunrise, sunset, windSpeed, b,
                   stdout, stderr, exitCode>>

\* root.go:135-138
Serialize ==
    /\ pc = "Serialize"
    /\ LET m == Marshal(data)
       IN  IF m.err # None
           THEN /\ Fatalf("encode json: " \o m.err)
                /\ UNCHANGED <<b, stages>>
           ELSE /\ b' = m.bytes
                /\ Enter("Emit")
                /\ UNCHANGED <<stderr, exitCode>>
    /\ UNCHANGED <<args, groups, zone, long, lat, request, calls, temp, icon, desc,
                   feelsLike, humidity, pressure, sunrise, sunset, windSpeed, data,
                   stdout>>

\* root.go:139: the bytes are written, Run and Execute return and the process
\* ends with status 0
Emit ==
    /\ pc = "Emit"
    /\ stdout' = Append(stdout, b)
    /\ exitCode' = 0
    /\ pc' = "exited"
    /\ UNCHANGED <<args, groups, zone, long, lat, request, calls, temp, icon, desc,
                   feelsLike, humidity, pressure, sunrise, sunset, windSpeed, data,
                   b, stderr, stages>>

Next ==
    \/ Execute
    \/ ParseArgs
    \/ NewCurrent
    \/ Query
    \/ ExtractFields
    \/ Format
    \/ Serialize
    \/ Emit

Spec == Init /\ [][Next]_vars

\* every step of the run is a step of the one thread of the process, which
\* keeps running until the process exits
FairSpec == Spec /\ WF_vars(Next)

(***************************************************************************)
(* Vocabulary of the properties.                                           *)
(***************************************************************************)
Exited == pc = "exited"

Entered(stage) == \E i \in 1..Len(stages) : stages[i] = stage

StageOrder ==
    <<"ParseArgs", "NewCurrent", "Query", "ExtractFields", "Format", "Serialize", "Emit">>

Rank(stage) == CHOOSE i \in 1..Len(StageOrder) : StageOrder[i] = stage

HasPrefix(s, prefix) == Len(s) >= Len(prefix) /\ SubSeq(s, 1, Len(prefix)) = prefix

HasSuffix(s, suffix) ==
    Len(s) >= Len(suffix) /\ SubSeq(s, Len(s) - Len(suffix) + 1, Len(s)) = suffix

\* s without its first Len(prefix) and its last Len(suffix) characters
Between(s, prefix, suffix) == SubSeq(s, Len(prefix) + 1, Len(s) - Len(suffix))

\* s cut at every newline
RECURSIVE Lines(_)
Lines(s) ==
    LET i == FirstIndex(s, "\n")
    IN  IF i = 0 THEN <<s>>
        ELSE <<SubSeq(s, 1, i - 1)>> \o Lines(SubSeq(s, i + 1, Len(s)))

\* s is an integer in decimal: an optional minus sign and one or more digits
IsIntegerText(s) ==
    LET u == IF HasPrefix(s, "-") THEN SubSeq(s, 2, Len(s)) ELSE s
    IN  u # "" /\ AllDigits(u)

IntegerOfText(s) ==
    IF HasPrefix(s, "-") THEN -DigitsVal(SubSeq(s, 2, Len(s))) ELSE DigitsVal(s)

\* the integer k is the value of n eighths with its fraction cut off
IsTruncationOf(k, n) ==
    /\ 8 * Abs(k) <= Abs(n)
    /\ Abs(n) < 8 * (Abs(k) + 1)
    /\ (k > 0 => n > 0)
    /\ (k < 0 => n < 0)

\* t is d with the first letter of every word in upper case and the other
\* letters in lower case
IsTitleOf(t, d) ==
    /\ Len(t) = Len(d)
    /\ \A i \in 1..Len(d) :
          LET c == Char(d, i)
              first == i = 1 \/ ~IsLetter(Char(d, i - 1))
          IN  Char(t, i) = IF ~IsLetter(c) THEN c
                           ELSE IF first THEN ToUpper(c) ELSE ToLower(c)

ParseFails(s) == ParseFloat(s).err # None

\* the two coordinates of the command line are numbers
ArgsParse == Len(args) = 3 /\ ~ParseFails(args[1]) /\ ~ParseFails(args[2])

\* all entries of all groups, in the order thunderstorm, drizzle, rain, snow,
\* atmosphere, cloud, additional
AllConditions ==
    groups[1] \o groups[2] \o groups[3] \o groups[4] \o groups[5] \o groups[6] \o groups[7]

Matches(id) == {i \in 1..Len(AllConditions) : AllConditions[i].ID = id}

FirstMeaning(id) ==
    IF Matches(id) = {} THEN ""
    ELSE AllConditions[CHOOSE i \in Matches(id) : \A j \in Matches(id) : i <= j].Meaning

\* the six lines of the tooltip that follow the description
ValueLines ==
    <<"Feels like " \o FormatInt(Int64(feelsLike)) \o " [deg]C",
      "Pressure " \o FormatInt(Int64(pressure)) \o " hPa",
      "Humidity " \o FormatInt(humidity) \o "%",
      "Sunrise " \o sunrise,
      "Sunset " \o sunset,
      "Wind speed " \o FormatFloat(windSpeed, 0) \o " m/sec">>

(***************************************************************************)
(* Properties.                                                             *)
(***************************************************************************)

\* C1: nothing is on standard output while the run is under way; a run that
\* ends has either written exactly one record, the serialized data, and ended
\* with status 0 after no diagnostic, or has written nothing, left a
\* diagnostic on the error stream and ended with a non-zero status; and a run
\* whose arguments, query or condition list are bad ends the second way.
C1_OneRecordOrNone ==
    /\ ~Exited => stdout = <<>> /\ exitCode = -1
    /\ Exited =>
          \/ /\ exitCode = 0
             /\ stderr = <<>>
             /\ Entered("Emit")
             /\ stdout = <<Marshal(data).bytes>>
          \/ /\ exitCode \in {1, 2}
             /\ stderr # <<>>
             /\ stdout = <<>>
    /\ Exited /\ ~ArgsParse => exitCode # 0 /\ stdout = <<>>
    /\ Exited /\ ~Entered("ExtractFields") => exitCode # 0 /\ stdout = <<>>
    /\ Exited /\ request.Weather = <<>> => exitCode # 0 /\ stdout = <<>>

\* C1 witness: the provider query failed; the run ended with status 1 and
\* wrote nothing
C1_Witness ==
    /\ Exited
    /\ Entered("Query")
    /\ ~Entered("ExtractFields")
    /\ exitCode = 1
    /\ stdout = <<>>

\* C2: when the query succeeded and the response has no condition entry, the
\* run ends in a checked fatal error: status 1 of log.Fatalf with a named
\* diagnostic, no output, and no index-out-of-range panic.
C2_EmptyConditionListChecked ==
    Exited /\ Entered("ExtractFields") /\ request.Weather = <<>> =>
        /\ exitCode = 1
        /\ stdout = <<>>
        /\ \A i \in 1..Len(stderr) : ~HasPrefix(stderr[i], "panic: ")

\* C3: when the first or the second argument is no number, no network call
\* is ever issued, and the run ends with status 1 and a parse diagnostic.
C3_ParseFailureBeforeQuery ==
    Len(args) = 3 /\ (ParseFails(args[1]) \/ ParseFails(args[2])) =>
        /\ calls = <<>>
        /\ ~Entered("Query")
        /\ Exited => /\ exitCode = 1
                     /\ Len(stderr) = 1
                     /\ HasPrefix(stderr[1], "parse l")
                     /\ stdout = <<>>

\* C3 witness: the first argument is a number, the second is not, and the run
\* has ended
C3_Witness ==
    /\ Exited
    /\ Len(args) = 3
    /\ ~ParseFails(args[1])
    /\ ParseFails(args[2])

C5_FirstMatch ==
    /\ \A id \in {e.ID : e \in WeatherPool} \cup {501, 951} :
          description(id) = FirstMeaning(id)
    /\ Entered("Format") => desc = FirstMeaning(request.Weather[1].ID)

\* C5 witness: the run looked up an ID that several entries carry, in one
\* group and in two groups
C5_Witness ==
    /\ Entered("Format")
    /\ Cardinality(Matches(request.Weather[1].ID)) > 2
    /\ desc = "light rain"

\* C6: an icon code outside the icon table yields the empty icon and never
\* fails the run: the text is a space, the temperature and " [deg]C", and a run
\* that ends has ended with status 0 and that one record written.
C6_UnknownIcon ==
    Entered("Format") /\ request.Weather[1].Icon \notin DOMAIN icons =>
        /\ icon = ""
        /\ exitCode \in {-1, 0}
        /\ Entered("Serialize") =>
              /\ HasPrefix(data.Text, " ")
              /\ data.Text = " " \o FormatFloat(temp, 1) \o " [deg]C"
              /\ ~IsSpace(Char(data.Text, 2))
        /\ Exited => exitCode = 0 /\ stdout = <<Marshal(data).bytes>>

\* C6 witness: a run with an unknown icon code has ended
C6_Witness ==
    /\ Exited
    /\ Entered("Format")
    /\ request.Weather[1].Icon = "zz"

\* at most one network call; the stages are entered in their order, each at
\* most once
C7_Safe ==
    /\ Len(calls) <= 1
    /\ \A i, j \in 1..Len(stages) : i < j => Rank(stages[i]) < Rank(stages[j])
    /\ Len(calls) = 1 <=> Entered("Query") /\ pc # "Query"

\* C7: every run issues at most one provider query, enters the stages at most
\* once each and in their order, and ends: after Emit or in a fatal exit.
C7_OneQueryAndTermination ==
    /\ []C7_Safe
    /\ <>(Exited /\ (Entered("Emit") \/ exitCode # 0))

\* C7 witness: the one query failed and the run ended without another
C7_Witness ==
    /\ Exited
    /\ Len(calls) = 1
    /\ stages[Len(stages)] = "Query"

\* C8: for a description that is not empty and does not start with white
\* space the tooltip is seven lines: the title-cased description and the six
\* labelled lines in their order, nothing before and nothing after.
C8_SevenLines ==
    Entered("Serialize") /\ desc # "" /\ ~IsSpace(Char(desc, 1)) =>
        LET lines == Lines(data.Tooltip)
        IN  /\ Len(lines) = 7
            /\ IsTitleOf(lines[1], desc)
            /\ SubSeq(lines, 2, 7) = ValueLines
            /\ ~IsSpace(Char(data.Tooltip, 1))
            /\ ~HasSuffix(data.Tooltip, "\n")

\* C8 witness: a tooltip was built from a description of two words
C8_Witness ==
    /\ Entered("Serialize")
    /\ desc = "clear sky"
    /\ Lines(data.Tooltip)[1] = "Clear Sky"

\* C9: the feels-like, pressure and humidity lines carry integers, the
\* provider's values with the fraction cut off; the wind speed line carries
\* an integer; the temperature of the text has exactly one decimal digit.
C9_Truncated ==
    Entered("Serialize") =>
        LET lines == Lines(data.Tooltip)
            n == Len(lines)
            fl == Between(lines[n - 5], "Feels like ", " [deg]C")
            pr == Between(lines[n - 4], "Pressure ", " hPa")
            hu == Between(lines[n - 3], "Humidity ", "%")
            ws == Between(lines[n], "Wind speed ", " m/sec")
            tt == Between(data.Text, icon \o " ", " [deg]C")
        IN  /\ n >= 6
            /\ IsIntegerText(fl) /\ IsTruncationOf(IntegerOfText(fl), feelsLike)
            /\ IsIntegerText(pr) /\ IsTruncationOf(IntegerOfText(pr), pressure)
            /\ IsIntegerText(hu) /\ IntegerOfText(hu) = humidity
            /\ IsIntegerText(ws)
            /\ Len(tt) >= 3
            /\ Char(tt, Len(tt) - 1) = "."
            /\ IsDigit(Char(tt, Len(tt)))
            /\ IsIntegerText(SubSeq(tt, 1, Len(tt) - 2))

\* C9 witness: a record was written for values whose fractions are above one
\* half: 20.75 feels-like and 1013.5 or more of pressure
C9_Witness ==
    /\ Exited
    /\ exitCode = 0
    /\ \/ feelsLike = 166
       \/ pressure = 8108

\* C10: for a condition ID that no group holds the description is empty, the
\* tooltip is the six labelled lines and starts with "Feels like ", and the
\* run still writes its record.
C10_NoDescriptionLine ==
    Entered("Serialize") /\ Matches(request.Weather[1].ID) = {} =>
        /\ desc = ""
        /\ Lines(data.Tooltip) = ValueLines
        /\ HasPrefix(data.Tooltip, "Feels like ")
        /\ exitCode \in {-1, 0}
        /\ Exited => stdout = <<Marshal(data).bytes>>

\* C10 witness: a run for the unknown condition 999 has written its record
C10_Witness ==
    /\ Exited
    /\ Entered("Serialize")
    /\ request.Weather[1].ID = 999
    /\ Len(stdout) = 1

====
